---- MODULE Spec2Model ----
(***************************************************************************)
(* The Future callback cell of cocaine/futures/__init__.py as a state      *)
(* machine: one action per public method, each run to completion (the      *)
(* cell is used from a single thread of control).                          *)
(*                                                                         *)
(* Program state: state, _callback, _errorback, _chunks, _errors.          *)
(* History (observation only, never read by the methods): calls, the log   *)
(* of handler invocations; accepted, the values that passed trigger's      *)
(* assertion; produced, the errors that passed error's assertion plus the  *)
(* ChokeEvents close created; last, the most recent method call and how it *)
(* ended; reopened, whether unbind has been run on a CLOSED cell;           *)
(* cancelled, whether close(silent=True) has been called; closedBy, how    *)
(* the cell entered the CLOSED state it is in ("silent" or "choke"), or    *)
(* "none" when no close has completed since the last unbind.               *)
(***************************************************************************)
EXTENDS Integers, Sequences, FiniteSets, TLC

VARIABLES state, _callback, _errorback, _chunks, _errors,
          calls, accepted, produced, last, reopened, cancelled, closedBy

vars == <<state, _callback, _errorback, _chunks, _errors,
          calls, accepted, produced, last, reopened, cancelled, closedBy>>

cell == <<state, _callback, _errorback, _chunks, _errors>>

\* ---------------------------------------------------------------- bounds
\* Number of trigger calls that pass the assertion in one behaviour.
MaxTriggers == 2
\* Number of errors produced (accepted error calls and ChokeEvents).
MaxErrors == 2

\* ------------------------------------------------------------- constants
UNITIALIZED == 0
BOUND == 1
CLOSED == 2

None == "None"
ChokeEvent == "ChokeEvent"
_default_errorback == "_default_errorback"

\* The consumer's handlers. A handler is known by its name; the ones in
\* RaisingHandlers raise when invoked, the others return normally.
Callbacks == {"cb1", "cb2"}
Errorbacks == {"eb1"}
RaisingCallbacks == {"cbRaise"}
RaisingErrorbacks == {"ebRaise"}
RaisingHandlers == RaisingCallbacks \cup RaisingErrorbacks

\* The cell never inspects a chunk, so the producer's chunks are numbered
\* in the order trigger accepts them: every run of the program is a
\* renaming of one of these, and an ordering mistake is always visible.
Chunks == {Len(accepted) + 1}
\* The producer's errors; close adds ChokeEvent to them.
Errs == {"E1"}

\* --------------------------------------------------------------- helpers
IsPrefix(s, t) == Len(s) <= Len(t) /\ SubSeq(t, 1, Len(s)) = s

Suffix(s, n) == SubSeq(s, n + 1, Len(s))

\* One handler invocation, as logged: which kind of handler, which handler,
\* with what argument.
Call(kind, h, x) == [kind |-> kind, h |-> h, x |-> x]

\* The invocations of handler h on the items of q, front to back.
CallsOn(kind, h, q) == [i \in 1..Len(q) |-> Call(kind, h, q[i])]

RECURSIVE ArgsOf(_, _)
ArgsOf(kind, log) ==
    IF log = <<>> THEN <<>>
    ELSE IF Head(log).kind = kind
         THEN <<Head(log).x>> \o ArgsOf(kind, Tail(log))
         ELSE ArgsOf(kind, Tail(log))

\* The invocations of one kind of handler in a log, in order.
CallsOfKind(kind, log) == SelectSeq(log, LAMBDA c : c.kind = kind)

DeliveredValues == ArgsOf("cb", calls)
DeliveredErrors == ArgsOf("eb", calls)

\* The record of a method call: op, how it ended (exc), the state it
\* started in, the number of handler invocations made before it, and for
\* close its argument.
Done(op, silent, exc) ==
    [op |-> op, silent |-> silent, exc |-> exc, from |-> state, n |-> Len(calls)]

\* What invoking handler h raises: a TypeError when h is None (not
\* callable), the handler's own exception when it is a raising handler.
Outcome(h) ==
    IF h = None THEN "TypeError"
    ELSE IF h \in RaisingHandlers THEN "HandlerError"
    ELSE "none"

\* (mutant) list.pop(): the drain takes the newest item first.
PopLast(q) == [item |-> q[Len(q)], rest |-> SubSeq(q, 1, Len(q) - 1)]

\* list.pop(0): the item removed and the list left.
Pop0(q) == [item |-> Head(q), rest |-> Tail(q)]

\* `while q: h(q.pop(0))`: the item is popped before h is invoked, so an
\* item whose invocation raises is gone from the queue; an invocation of
\* None reaches no handler at all.
RECURSIVE Drain(_, _, _)
Drain(kind, h, q) ==
    IF q = <<>> THEN [rest |-> <<>>, out |-> <<>>, exc |-> "none"]
    ELSE LET p == Pop0(q)
         IN  IF h = None
             THEN [rest |-> p.rest, out |-> <<>>, exc |-> Outcome(h)]
             ELSE IF Outcome(h) # "none"
             THEN [rest |-> p.rest, out |-> <<Call(kind, h, p.item)>>,
                   exc |-> Outcome(h)]
             ELSE LET r == Drain(kind, h, p.rest)
                  IN  [rest |-> r.rest,
                       out |-> <<Call(kind, h, p.item)>> \o r.out,
                       exc |-> r.exc]

\* ------------------------------------------------------------------ Init
Init ==
    /\ state = UNITIALIZED
    /\ _callback = None
    /\ _errorback = None
    /\ _chunks = <<>>
    /\ _errors = <<>>
    /\ calls = <<>>
    /\ accepted = <<>>
    /\ produced = <<>>
    /\ last = [op |-> "init", silent |-> FALSE, exc |-> "none",
               from |-> UNITIALIZED, n |-> 0]
    /\ reopened = FALSE
    /\ cancelled = FALSE
    /\ closedBy = "none"

\* ------------------------------------------------------------------ bind
\* (mutant) bind without its assertion.
BindAlways == TRUE

\* assert self.state in (self.UNITIALIZED, self.CLOSED)
BindAllowed == state \in {UNITIALIZED, CLOSED}

\* (mutant) bind without the default: the errorback stays None.
BindErrorbackGiven(errorback) == errorback

\* if errorback is None: errorback = self._default_errorback
BindErrorback(errorback) ==
    IF errorback = None THEN _default_errorback ELSE errorback

\* (mutant) bind stores the handlers whatever the state.
BindRetainsAlways == TRUE

\* if self.state == self.UNITIALIZED: (store the handlers, go BOUND)
BindRetains == state = UNITIALIZED

\* (mutant) a handler's exception is swallowed and bind carries on.
BindCompletesAlways(exc) == TRUE

\* An exception raised by a handler in one of the loops propagates out of
\* bind: the statements after the loops run only when none was raised.
BindCompletes(exc) == exc = "none"

\* (mutant) the errors loop runs before the values loop.
BindErrorsFirst(vs, es) == es \o vs

\* The invocations of one bind: those of the `while self._chunks` loop,
\* then those of the `while self._errors` loop.
BindInvocations(vs, es) == vs \o es

Bind(callback, errorback) ==
    IF ~BindAllowed
    THEN /\ last' = Done("bind", FALSE, "AssertionError")
         /\ UNCHANGED <<cell, calls, accepted, produced, reopened, cancelled, closedBy>>
    ELSE LET eb == BindErrorback(errorback)
             dv == Drain("cb", callback, _chunks)
             de == IF dv.exc = "none"
                   THEN Drain("eb", eb, _errors)
                   ELSE [rest |-> _errors, out |-> <<>>, exc |-> dv.exc]
         IN  /\ _chunks' = dv.rest
             /\ _errors' = de.rest
             /\ calls' = calls \o BindInvocations(dv.out, de.out)
             /\ IF BindCompletes(de.exc) /\ BindRetains
                THEN /\ _callback' = callback
                     /\ _errorback' = eb
                     /\ state' = BOUND
                ELSE UNCHANGED <<_callback, _errorback, state>>
             /\ last' = Done("bind", FALSE, de.exc)
             /\ UNCHANGED <<accepted, produced, reopened, cancelled, closedBy>>

\* ---------------------------------------------------------------- unbind
\* (mutant) unbind leaves the state as it is.
UnbindKeepsState == state

\* self.state = self.UNITIALIZED
UnbindState == UNITIALIZED

\* (mutant) unbind leaves the callback attached.
UnbindKeepsCallback == _callback

\* self._callback = None
UnbindCallback == None

\* (mutant) unbind leaves the errorback attached.
UnbindKeepsErrorback == _errorback

\* self._errorback = None
UnbindErrorback == None

Unbind ==
    /\ _callback' = UnbindCallback
    /\ _errorback' = UnbindErrorback
    /\ state' = UnbindState
    /\ reopened' = (reopened \/ state = CLOSED)
    /\ closedBy' = "none"
    /\ cancelled' = cancelled
    /\ last' = Done("unbind", FALSE, "none")
    /\ UNCHANGED <<_chunks, _errors, calls, accepted, produced>>

\* ----------------------------------------------------------------- close
\* (mutant) close without its early return.
CloseNeverReturns == FALSE

\* if self.state == self.CLOSED: return
CloseReturns == state = CLOSED

\* (mutant) the test of silent is inverted.
CloseEmitsWhenSilent(silent) == silent

\* if not silent: (emit a ChokeEvent)
CloseEmits(silent) == ~silent

\* (mutant) close puts the ChokeEvent ahead of the pending errors.
CloseAppendFront(q) == <<ChokeEvent>> \o q

\* self._errors.append(ChokeEvent())
CloseAppend(q) == Append(q, ChokeEvent)

Close(silent) ==
    IF CloseReturns
    THEN /\ last' = Done("close", silent, "none")
         /\ cancelled' = (cancelled \/ silent)
         /\ UNCHANGED <<cell, calls, accepted, produced, reopened, closedBy>>
    ELSE IF ~CloseEmits(silent)
    THEN /\ _callback' = None
         /\ _errorback' = None
         /\ state' = CLOSED
         /\ last' = Done("close", silent, "none")
         /\ cancelled' = (cancelled \/ silent)
         /\ closedBy' = "silent"
         /\ UNCHANGED <<_chunks, _errors, calls, accepted, produced, reopened>>
    ELSE /\ Len(produced) < MaxErrors
         /\ produced' = Append(produced, ChokeEvent)
         /\ IF _errorback = None
            THEN /\ _errors' = CloseAppend(_errors)
                 /\ calls' = calls
            ELSE /\ calls' = Append(calls, Call("eb", _errorback, ChokeEvent))
                 /\ _errors' = _errors
         /\ IF _errorback # None /\ Outcome(_errorback) # "none"
            THEN /\ last' = Done("close", silent, Outcome(_errorback))
                 /\ UNCHANGED <<_callback, _errorback, state, closedBy>>
            ELSE /\ _callback' = None
                 /\ _errorback' = None
                 /\ state' = CLOSED
                 /\ last' = Done("close", silent, "none")
                 /\ closedBy' = "choke"
         /\ cancelled' = (cancelled \/ silent)
         /\ UNCHANGED <<_chunks, accepted, reopened>>

\* --------------------------------------------------------------- trigger
\* (mutant) trigger without its assertion.
TriggerAlways == TRUE

\* assert self.state in (self.UNITIALIZED, self.BOUND)
TriggerAllowed == state \in {UNITIALIZED, BOUND}

\* (mutant) the chunk is put at the head of the queue.
TriggerPrepend(q, chunk) == <<chunk>> \o q

\* self._chunks.append(chunk)
TriggerAppend(q, chunk) == Append(q, chunk)

\* (mutant) trigger queues the chunk even when a callback is attached.
TriggerBuffersAlways == TRUE

\* if self._callback is None: (queue the chunk, else call the callback)
TriggerBuffers == _callback = None

Trigger(chunk) ==
    IF ~TriggerAllowed
    THEN /\ last' = Done("trigger", FALSE, "AssertionError")
         /\ UNCHANGED <<cell, calls, accepted, produced, reopened, cancelled, closedBy>>
    ELSE /\ Len(accepted) < MaxTriggers
         /\ accepted' = Append(accepted, chunk)
         /\ IF TriggerBuffers
            THEN /\ _chunks' = TriggerAppend(_chunks, chunk)
                 /\ calls' = calls
                 /\ last' = Done("trigger", FALSE, "none")
            ELSE /\ calls' = Append(calls, Call("cb", _callback, chunk))
                 /\ _chunks' = _chunks
                 /\ last' = Done("trigger", FALSE, Outcome(_callback))
         /\ UNCHANGED <<state, _callback, _errorback, _errors, produced, reopened, cancelled, closedBy>>

\* ----------------------------------------------------------------- error
\* (mutant) error without its assertion.
ErrorAlways == TRUE

\* assert self.state in (self.UNITIALIZED, self.BOUND)
ErrorAllowed == state \in {UNITIALIZED, BOUND}

Error(err) ==
    IF ~ErrorAllowed
    THEN /\ last' = Done("error", FALSE, "AssertionError")
         /\ UNCHANGED <<cell, calls, accepted, produced, reopened, cancelled, closedBy>>
    ELSE /\ Len(produced) < MaxErrors
         /\ produced' = Append(produced, err)
         /\ IF _errorback = None
            THEN /\ _errors' = Append(_errors, err)
                 /\ calls' = calls
                 /\ last' = Done("error", FALSE, "none")
            ELSE /\ calls' = Append(calls, Call("eb", _errorback, err))
                 /\ _errors' = _errors
                 /\ last' = Done("error", FALSE, Outcome(_errorback))
         /\ UNCHANGED <<state, _callback, _chunks, accepted, reopened, cancelled, closedBy>>
         /\ _errorback' = _errorback

\* -------------------------------------------------------- specifications
\* The consumer binds callable handlers that return normally.
BindHandlers == \E cb \in Callbacks, eb \in Errorbacks \cup {None} : Bind(cb, eb)

DoUnbind == Unbind

DoClose == \E silent \in BOOLEAN : Close(silent)

DoTrigger == \E chunk \in Chunks : Trigger(chunk)

DoError == \E err \in Errs : Error(err)

Next == BindHandlers \/ DoUnbind \/ DoClose \/ DoTrigger \/ DoError

Spec == Init /\ [][Next]_vars

\* The consumer may also pass None as the callback (bind(None, eb)).
BindNone == \E eb \in Errorbacks \cup {None} : Bind(None, eb)

NextNone == Next \/ BindNone

SpecNone == Init /\ [][NextNone]_vars

\* The consumer's handlers may raise: binds draw the callback from cb1 and
\* the raising callback, the errorback from eb1 and the raising errorback.
BindRaising ==
    \E cb \in {"cb1"} \cup RaisingCallbacks, eb \in Errorbacks \cup RaisingErrorbacks :
        Bind(cb, eb)

NextRaise == BindRaising \/ DoUnbind \/ DoClose \/ DoTrigger \/ DoError

SpecRaise == Init /\ [][NextRaise]_vars

\* ================================================================ claims
BindArgs == Callbacks \X (Errorbacks \cup {None})

\* The values accepted by trigger and not yet handed to any callback.
Backlog == Suffix(accepted, Len(DeliveredValues))

\* ------------------------------------------------------------------- C1
\* C1: a bind(cb) on an UNBOUND cell (no live callback) invokes cb, during
\* the call, on exactly the values triggered while unbound and not yet
\* delivered, in the order they were triggered; nothing stays queued, and
\* the log of invocations only ever grows at its end, so a value triggered
\* after the bind reaches cb after them.
C1_BindDeliversBacklogInOrder ==
    [][ /\ IsPrefix(calls, calls')
        /\ \A args \in BindArgs :
             (state = UNITIALIZED /\ _callback = None /\ Bind(args[1], args[2]))
             => /\ CallsOfKind("cb", Suffix(calls', Len(calls)))
                     = CallsOn("cb", args[1], Backlog)
                /\ _chunks' = <<>>
                /\ _callback' = args[1]
      ]_vars

\* Two values were pending and the bind just handed them over, 1 before 2.
C1_Witness ==
    /\ last.op = "bind" /\ last.exc = "none" /\ last.from = UNITIALIZED
    /\ Len(calls) >= last.n + 2
    /\ calls[last.n + 1] = Call("cb", _callback, 1)
    /\ calls[last.n + 2] = Call("cb", _callback, 2)

\* ------------------------------------------------------------------- C2
\* C2: in every reachable state the values delivered to callbacks so far
\* are a prefix of the values trigger accepted, and the errors delivered to
\* errorbacks so far are a prefix of the errors produced (accepted error
\* calls and the ChokeEvents of close).
C2_DeliveredIsPrefixOfProduced ==
    /\ IsPrefix(DeliveredValues, accepted)
    /\ IsPrefix(DeliveredErrors, produced)

\* Both streams have delivered two items, the error stream an error and
\* then the ChokeEvent of a close.
C2_Witness ==
    /\ DeliveredValues = <<1, 2>>
    /\ DeliveredErrors = <<"E1", ChokeEvent>>

\* ------------------------------------------------------------------- C3
\* C3: bind called on a BOUND cell fails its assertion, changes neither the
\* state, the live handlers nor the pending queues, and invokes no handler.
C3_DoubleBindFails ==
    [][ \A args \in BindArgs :
          (state = BOUND /\ Bind(args[1], args[2]))
          => /\ last'.op = "bind" /\ last'.exc = "AssertionError"
             /\ UNCHANGED <<state, _callback, _errorback, _chunks, _errors>>
             /\ UNCHANGED calls
      ]_vars

\* A bind was just refused on a BOUND cell.
C3_Witness ==
    /\ last.op = "bind" /\ last.exc = "AssertionError"
    /\ last.from = BOUND /\ state = BOUND /\ _callback \in Callbacks

\* ------------------------------------------------------------------- C4
\* C4: trigger and error called on a CLOSED cell fail their assertion: no
\* handler is invoked, nothing is appended to a pending queue, and the
\* state stays CLOSED.
C4_ProduceWhileClosedFails ==
    [][ (state = CLOSED /\ ((\E c \in Chunks : Trigger(c)) \/ (\E e \in Errs : Error(e))))
        => /\ last'.op \in {"trigger", "error"}
           /\ last'.exc = "AssertionError"
           /\ state' = CLOSED
           /\ UNCHANGED <<_chunks, _errors, calls, accepted, produced>>
           /\ UNCHANGED <<_callback, _errorback>>
      ]_vars

\* A trigger was just refused on a CLOSED cell that still holds a backlog.
C4_Witness ==
    /\ last.op = "trigger" /\ last.exc = "AssertionError"
    /\ state = CLOSED /\ _chunks # <<>>

\* ------------------------------------------------------------------- C5
\* C5: a close that directly follows a close changes nothing, whatever its
\* silent argument: the state, the handlers, both pending queues, the log
\* of handler invocations and the errors produced (no second ChokeEvent)
\* stay as the first close left them.
C5_CloseIsIdempotent ==
    [][ (last.op = "close" /\ \E silent \in BOOLEAN : Close(silent))
        => /\ UNCHANGED <<state, _callback, _errorback, _chunks, _errors>>
           /\ UNCHANGED <<calls, produced>>
      ]_vars

\* The cell was closed once, notifying the live errorback, and a later
\* non-silent close found it CLOSED; still exactly one ChokeEvent exists.
C5_Witness ==
    /\ last.op = "close" /\ last.from = CLOSED /\ ~last.silent
    /\ ~reopened
    /\ produced = <<ChokeEvent>>
    /\ DeliveredErrors = <<ChokeEvent>>

\* ------------------------------------------------------------------- C6
\* C6: close(silent=false) on a cell that is not CLOSED produces exactly one
\* ChokeEvent: the live errorback is invoked once with it when there is
\* one, otherwise it is appended at the tail of the pending errors;
\* close(silent=true) invokes no handler and appends to neither queue.
C6_CloseEmitsOneChokeEvent ==
    [][ \A silent \in BOOLEAN :
          (state # CLOSED /\ Close(silent))
          => IF silent
             THEN UNCHANGED <<calls, _chunks, _errors, produced>>
             ELSE /\ produced' = Append(produced, ChokeEvent)
                  /\ _chunks' = _chunks
                  /\ IF _errorback # None
                     THEN /\ calls' = Append(calls, Call("eb", _errorback, ChokeEvent))
                          /\ _errors' = _errors
                     ELSE /\ calls' = calls
                          /\ _errors' = Append(_errors, ChokeEvent)
      ]_vars

\* A non-silent close of a BOUND cell just invoked the errorback eb1 once,
\* with the ChokeEvent.
C6_Witness ==
    /\ last.op = "close" /\ ~last.silent /\ last.from = BOUND
    /\ Len(calls) = last.n + 1
    /\ calls[Len(calls)] = Call("eb", "eb1", ChokeEvent)
    /\ _errors = <<>>

\* ------------------------------------------------------------------- C7
\* C7: bind(cb2) on a CLOSED cell hands the buffered values to cb2 front to
\* back, keeps neither cb2 nor the errorback and leaves the state CLOSED;
\* a trigger or error that follows this bind fails its assertion and
\* changes nothing.
C7_BindOnClosedOnlyDrains ==
    [][ /\ \A args \in BindArgs :
             (state = CLOSED /\ Bind(args[1], args[2]))
             => /\ last'.exc = "none"
                /\ CallsOfKind("cb", Suffix(calls', Len(calls)))
                     = CallsOn("cb", args[1], _chunks)
                /\ _chunks' = <<>>
                /\ state' = CLOSED
                /\ _callback' = None
                /\ _errorback' = None
        /\ (/\ last.op = "bind" /\ last.from = CLOSED
            /\ ((\E c \in Chunks : Trigger(c)) \/ (\E e \in Errs : Error(e))))
           => /\ last'.exc = "AssertionError"
              /\ UNCHANGED <<state, _callback, _errorback, _chunks, _errors>>
              /\ UNCHANGED calls
      ]_vars

\* A bind on a CLOSED cell just handed over the two buffered values, 1
\* before 2, and the cell is still CLOSED with no handler stored.
C7_Witness ==
    /\ last.op = "bind" /\ last.from = CLOSED /\ state = CLOSED
    /\ Len(calls) >= last.n + 2
    /\ calls[last.n + 1].kind = "cb" /\ calls[last.n + 1].x = 1
    /\ calls[last.n + 2].kind = "cb" /\ calls[last.n + 2].x = 2
    /\ calls[last.n + 1].h = calls[last.n + 2].h
    /\ _callback = None /\ _errorback = None

\* ------------------------------------------------------------------- C8
\* C8: a trigger(v) that directly follows an unbind, whatever the state
\* before the unbind, is accepted, invokes no handler and appends v at the
\* tail of the pending values; only a bind removes pending values; and the
\* next bind that is accepted invokes its callback once on each pending
\* value, front to back, leaving none pending.
C8_UnbindThenTriggerBuffers ==
    [][ /\ \A c \in Chunks :
             (last.op = "unbind" /\ Trigger(c))
             => /\ last'.exc = "none"
                /\ calls' = calls
                /\ _chunks' = Append(_chunks, c)
                /\ _errors' = _errors
        /\ (last'.op # "bind") => IsPrefix(_chunks, _chunks')
        /\ \A args \in BindArgs :
             (state # BOUND /\ Bind(args[1], args[2]))
             => /\ CallsOfKind("cb", Suffix(calls', Len(calls)))
                     = CallsOn("cb", args[1], _chunks)
                /\ _chunks' = <<>>
      ]_vars

\* eb1 saw the ChokeEvent of a close before cb2 saw value 1: the value was
\* triggered after the cell left CLOSED by unbind, was buffered, and the
\* bind that followed delivered it.
C8_Witness ==
    /\ last.op = "bind" /\ last.exc = "none" /\ state = BOUND
    /\ reopened
    /\ calls = <<Call("eb", "eb1", ChokeEvent), Call("cb", "cb2", 1)>>
    /\ _chunks = <<>>

\* ------------------------------------------------------------------- C9
\* C9: unbind on a CLOSED cell leaves it UNBOUND with no handlers; once the
\* cell has been reopened this way, trigger and error in the UNBOUND state
\* are accepted and buffered, a bind stores its handlers (the default
\* errorback when none is given) and makes the cell BOUND, and a trigger in
\* the BOUND state invokes the live callback at once.
C9_ClosedIsNotTerminal ==
    [][ /\ (state = CLOSED /\ Unbind)
           => /\ state' = UNITIALIZED
              /\ _callback' = None /\ _errorback' = None
              /\ reopened'
        /\ (reopened /\ state = UNITIALIZED)
           => /\ \A c \in Chunks :
                   Trigger(c) => /\ last'.exc = "none"
                                 /\ _chunks' = Append(_chunks, c)
                                 /\ calls' = calls
              /\ \A e \in Errs :
                   Error(e) => /\ last'.exc = "none"
                               /\ _errors' = Append(_errors, e)
                               /\ calls' = calls
              /\ \A args \in BindArgs :
                   Bind(args[1], args[2])
                   => /\ state' = BOUND
                      /\ _callback' = args[1]
                      /\ _errorback' = IF args[2] = None
                                       THEN _default_errorback ELSE args[2]
        /\ (reopened /\ state = BOUND)
           => \A c \in Chunks :
                Trigger(c) => /\ last'.exc = "none"
                              /\ calls' = Append(calls, Call("cb", _callback, c))
                              /\ _chunks' = _chunks
      ]_vars

\* After a close and an unbind the cell was bound again and a trigger just
\* reached the live callback.
C9_Witness ==
    /\ reopened /\ state = BOUND
    /\ last.op = "trigger" /\ last.exc = "none" /\ last.from = BOUND
    /\ Len(calls) = last.n + 1
    /\ calls[Len(calls)] = Call("cb", _callback, accepted[Len(accepted)])
    /\ ChokeEvent \in {produced[i] : i \in 1..Len(produced)}

\* ------------------------------------------------------------------ C10
\* C10: in every reachable state the state is BOUND exactly when a live
\* callback is present, and a BOUND cell has a live errorback; checked for
\* every bind the code accepts, bind(None, eb) included.
C10_BoundIffCallback ==
    /\ (state = BOUND) <=> (_callback # None)
    /\ (state = BOUND) => (_errorback # None)

\* A trigger or an error call is made in this step.
ProduceStep == (\E c \in Chunks : Trigger(c)) \/ (\E e \in Errs : Error(e))

\* ------------------------------------------------------------------ C11
\* C11 (as claimed): close(silent=True) invokes no handler, and once it has
\* been called no trigger or error call ever invokes a handler again,
\* whatever operations follow.
C11_SilentCloseCancelsForever ==
    [][ /\ Close(TRUE) => calls' = calls
        /\ (cancelled /\ ProduceStep) => calls' = calls
      ]_vars

\* C11 (amended): close(silent=True) invokes no handler and leaves the cell
\* CLOSED with no handlers; a CLOSED cell is left only by unbind; and while
\* the cell is CLOSED every trigger and error call fails its assertion and
\* invokes no handler. So no live delivery follows a silent close until
\* unbind is called.
C11_SilentCloseCancelsUntilUnbind ==
    [][ /\ Close(TRUE)
           => /\ calls' = calls
              /\ state' = CLOSED
              /\ _callback' = None /\ _errorback' = None
        /\ (state = CLOSED /\ state' # CLOSED) => last'.op = "unbind"
        /\ (state = CLOSED /\ ProduceStep)
           => /\ last'.exc = "AssertionError"
              /\ calls' = calls
      ]_vars

\* A callback received value 1, the cell was then closed silently (no
\* ChokeEvent exists) and never unbound, and an error call was just refused.
C11_Witness ==
    /\ cancelled /\ closedBy = "silent" /\ ~reopened
    /\ state = CLOSED
    /\ DeliveredValues = <<1>> /\ produced = <<>>
    /\ last.op = "error" /\ last.exc = "AssertionError"

\* ------------------------------------------------------------------ C12
\* C12: when bind is called without an errorback, the default errorback is
\* invoked exactly once on each error pending at bind time (front to back,
\* leaving none queued), once on each error produced while that binding is
\* live and once on the ChokeEvent of a non-silent close; an invocation of
\* the default errorback changes neither the state nor the queues.
C12_DefaultErrorbackGetsEveryError ==
    [][ /\ \A cb \in Callbacks :
             (state # BOUND /\ Bind(cb, None))
             => /\ CallsOfKind("eb", Suffix(calls', Len(calls)))
                     = CallsOn("eb", _default_errorback, _errors)
                /\ _errors' = <<>>
                /\ (state = UNITIALIZED) => (_errorback' = _default_errorback)
        /\ (_errorback = _default_errorback)
           => /\ \A e \in Errs :
                   Error(e)
                   => /\ calls' = Append(calls, Call("eb", _default_errorback, e))
                      /\ UNCHANGED <<state, _callback, _errorback, _chunks, _errors>>
              /\ Close(FALSE)
                 => /\ calls' = Append(calls, Call("eb", _default_errorback, ChokeEvent))
                    /\ UNCHANGED <<_chunks, _errors>>
      ]_vars

\* The default errorback has received an error and then, from a non-silent
\* close of the BOUND cell, the ChokeEvent; no other errorback was invoked.
C12_Witness ==
    /\ last.op = "close" /\ ~last.silent /\ last.from = BOUND
    /\ CallsOfKind("eb", calls)
         = CallsOn("eb", _default_errorback, <<"E1", ChokeEvent>>)
    /\ _errors = <<>>

\* ------------------------------------------------------------------ C13
\* C13: a bind that starts UNBOUND or CLOSED invokes the callback on every
\* pending value, front to back, and only then the errorback on every
\* pending error, front to back; when it returns both queues are empty.
C13_BindDrainsValuesThenErrors ==
    [][ \A args \in BindArgs :
          (state \in {UNITIALIZED, CLOSED} /\ Bind(args[1], args[2]))
          => /\ last'.exc = "none"
             /\ Suffix(calls', Len(calls))
                  = CallsOn("cb", args[1], _chunks)
                    \o CallsOn("eb", IF args[2] = None THEN _default_errorback
                                     ELSE args[2], _errors)
             /\ _chunks' = <<>>
             /\ _errors' = <<>>
      ]_vars

\* A bind just found two values and two errors pending and invoked its
\* callback on 1 and 2 before its errorback on E1 and the ChokeEvent.
C13_Witness ==
    /\ last.op = "bind" /\ last.exc = "none"
    /\ Len(calls) = last.n + 4
    /\ ArgsOf("cb", SubSeq(calls, last.n + 1, last.n + 2)) = <<1, 2>>
    /\ ArgsOf("eb", SubSeq(calls, last.n + 3, last.n + 4)) = <<"E1", ChokeEvent>>
    /\ _chunks = <<>> /\ _errors = <<>>

\* ------------------------------------------------------------------ C14
\* Some errorback has been invoked with a ChokeEvent.
ChokeDelivered == \E i \in 1..Len(calls) : calls[i].kind = "eb" /\ calls[i].x = ChokeEvent

\* The cell is CLOSED by a non-silent close, has not been unbound since,
\* and the ChokeEvent of that close (the last error produced) has been
\* delivered.
ChokeOfCloseDelivered ==
    /\ closedBy = "choke"
    /\ Len(DeliveredErrors) = Len(produced)

\* C14 (as claimed): once a ChokeEvent has been delivered to an errorback,
\* no handler is ever invoked again, whatever operations follow.
C14_NothingAfterChokeEvent ==
    [][ ChokeDelivered => calls' = calls ]_vars

\* C14 (amended): once the ChokeEvent of a non-silent close has been
\* delivered to an errorback, then for as long as unbind has not been
\* called since that close, no errorback is invoked, every trigger and
\* error call fails its assertion, nothing new is accepted, and a callback
\* can only still receive values left in the queue from before the close.
C14_NothingNewAfterChokeEventUntilUnbind ==
    [][ ChokeOfCloseDelivered
        => /\ ChokeDelivered
           /\ produced[Len(produced)] = ChokeEvent
           /\ CallsOfKind("eb", Suffix(calls', Len(calls))) = <<>>
           /\ ProduceStep => (last'.exc = "AssertionError" /\ calls' = calls)
           /\ accepted' = accepted /\ produced' = produced
           /\ IsPrefix(ArgsOf("cb", Suffix(calls', Len(calls))), _chunks)
      ]_vars

\* A value and then the ChokeEvent of a close were delivered; the cell was
\* not unbound since, and a bind on it has just found nothing to deliver.
C14_Witness ==
    /\ ChokeOfCloseDelivered
    /\ DeliveredValues = <<1>>
    /\ calls[Len(calls)].x = ChokeEvent
    /\ last.op = "bind" /\ last.from = CLOSED /\ last.n = Len(calls)

\* ------------------------------------------------------------------ C15
\* C15: every close of an UNBOUND or BOUND cell, silent or not, ends with
\* the state CLOSED and no live callback or errorback, whatever the
\* errorback does when it is invoked with the ChokeEvent.
C15_CloseAlwaysCloses ==
    [][ \A silent \in BOOLEAN :
          (state \in {UNITIALIZED, BOUND} /\ Close(silent))
          => /\ state' = CLOSED
             /\ _callback' = None
             /\ _errorback' = None
      ]_vars

\* ------------------------------------------------------------------ C18
RaisingBindArgs == ({"cb1"} \cup RaisingCallbacks) \X (Errorbacks \cup RaisingErrorbacks)

\* C18: when a handler raises while bind drains the backlog of an UNBOUND
\* cell, bind ends with that exception, the cell is still UNBOUND with no
\* handlers stored, the item whose handler raised is gone from its queue
\* and the items behind it are still queued in their order; the invocations
\* made are those up to and including the one that raised.
C18_RaiseInBindLeavesCellUnbound ==
    [][ \A args \in RaisingBindArgs :
          (state = UNITIALIZED /\ Bind(args[1], args[2]))
          => LET new == Suffix(calls', Len(calls))
                 onValue == args[1] \in RaisingCallbacks /\ _chunks # <<>>
                 onError == /\ ~onValue
                            /\ args[2] \in RaisingErrorbacks /\ _errors # <<>>
             IN  /\ onValue
                    => /\ last'.exc = "HandlerError"
                       /\ new = <<Call("cb", args[1], Head(_chunks))>>
                       /\ _chunks' = Tail(_chunks)
                       /\ _errors' = _errors
                 /\ onError
                    => /\ last'.exc = "HandlerError"
                       /\ new = CallsOn("cb", args[1], _chunks)
                                \o <<Call("eb", args[2], Head(_errors))>>
                       /\ _chunks' = <<>>
                       /\ _errors' = Tail(_errors)
                 /\ (onValue \/ onError)
                    => /\ state' = UNITIALIZED
                       /\ _callback' = None /\ _errorback' = None
                 /\ ~(onValue \/ onError)
                    => /\ last'.exc = "none"
                       /\ state' = BOUND
      ]_vars

\* With values 1 and 2 pending, a bind whose callback raises was just
\* attempted: the callback saw 1, 2 is still queued, the cell is UNBOUND.
C18_Witness ==
    /\ last.op = "bind" /\ last.exc = "HandlerError"
    /\ state = UNITIALIZED /\ _callback = None /\ _errorback = None
    /\ calls = <<Call("cb", "cbRaise", 1)>>
    /\ _chunks = <<2>>

\* ------------------------------------------------------------------ C16
\* C16: trigger(v) on a cell with a live callback invokes that callback
\* once with v and changes nothing else; with no live callback, on a cell
\* that is not CLOSED, it invokes nothing and appends v at the tail of the
\* pending values only. error(e) does the same with the errorback and the
\* pending errors.
C16_ProduceDeliversOrBuffers ==
    [][ /\ \A c \in Chunks :
             (state # CLOSED /\ Trigger(c))
             => /\ last'.exc = "none"
                /\ UNCHANGED <<state, _callback, _errorback, _errors>>
                /\ IF _callback # None
                   THEN /\ calls' = Append(calls, Call("cb", _callback, c))
                        /\ _chunks' = _chunks
                   ELSE /\ calls' = calls
                        /\ _chunks' = Append(_chunks, c)
        /\ \A e \in Errs :
             (state # CLOSED /\ Error(e))
             => /\ last'.exc = "none"
                /\ UNCHANGED <<state, _callback, _errorback, _chunks>>
                /\ IF _errorback # None
                   THEN /\ calls' = Append(calls, Call("eb", _errorback, e))
                        /\ _errors' = _errors
                   ELSE /\ calls' = calls
                        /\ _errors' = Append(_errors, e)
      ]_vars

\* A trigger on a BOUND cell just invoked the live callback with 2, the
\* second invocation in all, and nothing is queued.
C16_Witness ==
    /\ last.op = "trigger" /\ last.exc = "none" /\ last.from = BOUND
    /\ last.n = 1 /\ Len(calls) = 2
    /\ calls[2] = Call("cb", _callback, 2)
    /\ _chunks = <<>> /\ _errors = <<>>

\* ------------------------------------------------------------------ C17
\* C17: unbind() from any state sets the state to UNITIALIZED and clears
\* both live handlers; it leaves the pending values and pending errors
\* exactly as they were and invokes no handler.
C17_UnbindClearsHandlersOnly ==
    [][ Unbind => /\ state' = UNITIALIZED
                  /\ _callback' = None
                  /\ _errorback' = None
                  /\ UNCHANGED <<_chunks, _errors, calls>>
                  /\ last'.exc = "none"
      ]_vars

\* unbind() was just called on a CLOSED cell that held live handlers and
\* still holds a pending value; the value is still there.
C17_Witness ==
    /\ last.op = "unbind" /\ last.from = CLOSED
    /\ state = UNITIALIZED /\ _callback = None /\ _errorback = None
    /\ _chunks # <<>> /\ calls # <<>>

\* ------------------------------------------------------------------ C19
\* C19: no value is dropped or delivered twice. With handlers that return
\* normally, the values delivered to callbacks so far followed by the
\* pending values are the values accepted by trigger, in order; and the
\* errors delivered to errorbacks followed by the pending errors are the
\* errors produced (accepted error calls and emitted ChokeEvents), in order.
C19_DeliveredThenPendingIsAccepted ==
    /\ DeliveredValues \o _chunks = accepted
    /\ DeliveredErrors \o _errors = produced

\* Values and errors have both been delivered and are both pending, and a
\* ChokeEvent is among the errors produced.
C19_Witness ==
    /\ DeliveredValues # <<>> /\ _chunks # <<>>
    /\ DeliveredErrors # <<>> /\ _errors # <<>>
    /\ \E i \in 1..Len(produced) : produced[i] = ChokeEvent

\* ================================================== handlers that call back
\* The consumer's handlers may call trigger or error on the cell that is
\* invoking them. cbTrigger and ebTrigger call trigger with the next chunk,
\* cbError and ebError call error with E1, each for as long as the producer's
\* bound on accepted values or produced errors allows, and return normally
\* otherwise; an exception raised by the nested call propagates through the
\* handler.
ReentrantCallbacks == {"cbTrigger", "cbError"}
ReentrantErrorbacks == {"ebTrigger", "ebError"}

Body(h) ==
    IF h \in {"cbTrigger", "ebTrigger"} THEN "trigger"
    ELSE IF h \in {"cbError", "ebError"} THEN "error"
    ELSE "return"

\* The part of the cell and of the history that changes while a handler
\* runs: the queues and the logs. The state and the live handlers are
\* assigned by bind and close only after their last handler invocation, so
\* every nested trigger or error sees their values from before the method.
Running(exc) ==
    [chunks |-> _chunks, errors |-> _errors, calls |-> calls,
     accepted |-> accepted, produced |-> produced, exc |-> exc]

RECURSIVE Invoke(_, _, _, _)
RECURSIVE NestedTrigger(_, _)
RECURSIVE NestedError(_, _)

\* h(x), for h the callback or errorback named h.
Invoke(kind, h, x, k) ==
    IF h = None THEN [k EXCEPT !.exc = Outcome(h)]
    ELSE LET k1 == [k EXCEPT !.calls = Append(@, Call(kind, h, x))]
         IN  IF Body(h) = "trigger" /\ Len(k1.accepted) < MaxTriggers
             THEN NestedTrigger(Len(k1.accepted) + 1, k1)
             ELSE IF Body(h) = "error" /\ Len(k1.produced) < MaxErrors
             THEN NestedError("E1", k1)
             ELSE [k1 EXCEPT !.exc = Outcome(h)]

\* trigger(chunk), called from inside a handler.
NestedTrigger(chunk, k) ==
    IF ~TriggerAllowed THEN [k EXCEPT !.exc = "AssertionError"]
    ELSE LET k1 == [k EXCEPT !.accepted = Append(@, chunk)]
         IN  IF TriggerBuffers
             THEN [k1 EXCEPT !.chunks = TriggerAppend(@, chunk)]
             ELSE Invoke("cb", _callback, chunk, k1)

\* error(err), called from inside a handler.
NestedError(err, k) ==
    IF ~ErrorAllowed THEN [k EXCEPT !.exc = "AssertionError"]
    ELSE LET k1 == [k EXCEPT !.produced = Append(@, err)]
         IN  IF _errorback = None
             THEN [k1 EXCEPT !.errors = Append(@, err)]
             ELSE Invoke("eb", _errorback, err, k1)

\* `while self._chunks: callback(self._chunks.pop(0))`: the condition is
\* evaluated again after every invocation, so a value the callback queued
\* is drained by the same loop.
RECURSIVE DrainChunks(_, _)
DrainChunks(callback, k) ==
    IF k.exc # "none" \/ k.chunks = <<>> THEN k
    ELSE LET p == Pop0(k.chunks)
         IN  DrainChunks(callback,
                 Invoke("cb", callback, p.item, [k EXCEPT !.chunks = p.rest]))

\* `while self._errors: errorback(self._errors.pop(0))`.
RECURSIVE DrainErrors(_, _)
DrainErrors(errorback, k) ==
    IF k.exc # "none" \/ k.errors = <<>> THEN k
    ELSE LET p == Pop0(k.errors)
         IN  DrainErrors(errorback,
                 Invoke("eb", errorback, p.item, [k EXCEPT !.errors = p.rest]))

\* The queues and logs as a method leaves them.
Leave(k) ==
    /\ _chunks' = k.chunks
    /\ _errors' = k.errors
    /\ calls' = k.calls
    /\ accepted' = k.accepted
    /\ produced' = k.produced

\* bind(callback, errorback) with handlers that may call back.
BindReentrant(callback, errorback) ==
    IF ~BindAllowed
    THEN /\ last' = Done("bind", FALSE, "AssertionError")
         /\ UNCHANGED <<cell, calls, accepted, produced, reopened, cancelled, closedBy>>
    ELSE LET eb == BindErrorback(errorback)
             k  == DrainErrors(eb, DrainChunks(callback, Running("none")))
         IN  /\ Leave(k)
             /\ IF BindCompletes(k.exc) /\ BindRetains
                THEN /\ _callback' = callback
                     /\ _errorback' = eb
                     /\ state' = BOUND
                ELSE UNCHANGED <<_callback, _errorback, state>>
             /\ last' = Done("bind", FALSE, k.exc)
             /\ UNCHANGED <<reopened, cancelled, closedBy>>

\* close(silent) with handlers that may call back.
CloseReentrant(silent) ==
    IF CloseReturns \/ ~CloseEmits(silent) \/ _errorback = None
    THEN Close(silent)
    ELSE /\ Len(produced) < MaxErrors
         /\ LET k == Invoke("eb", _errorback, ChokeEvent,
                            [Running("none") EXCEPT
                                !.produced = Append(@, ChokeEvent)])
            IN  /\ Leave(k)
                /\ last' = Done("close", silent, k.exc)
                /\ IF k.exc # "none"
                   THEN UNCHANGED <<_callback, _errorback, state, closedBy>>
                   ELSE /\ _callback' = None
                        /\ _errorback' = None
                        /\ state' = CLOSED
                        /\ closedBy' = "choke"
         /\ cancelled' = (cancelled \/ silent)
         /\ UNCHANGED reopened

\* trigger(chunk) with handlers that may call back.
TriggerReentrant(chunk) ==
    IF ~TriggerAllowed
    THEN Trigger(chunk)
    ELSE /\ Len(accepted) < MaxTriggers
         /\ LET k == NestedTrigger(chunk, Running("none"))
            IN  /\ Leave(k)
                /\ last' = Done("trigger", FALSE, k.exc)
         /\ UNCHANGED <<state, _callback, _errorback, reopened, cancelled, closedBy>>

\* error(err) with handlers that may call back.
ErrorReentrant(err) ==
    IF ~ErrorAllowed
    THEN Error(err)
    ELSE /\ Len(produced) < MaxErrors
         /\ LET k == NestedError(err, Running("none"))
            IN  /\ Leave(k)
                /\ last' = Done("error", FALSE, k.exc)
         /\ UNCHANGED <<state, _callback, _errorback, reopened, cancelled, closedBy>>

\* The consumer binds handlers that return normally or call back.
BindCallingBack ==
    \E cb \in {"cb1"} \cup ReentrantCallbacks,
       eb \in Errorbacks \cup ReentrantErrorbacks : BindReentrant(cb, eb)

CloseCallingBack == \E silent \in BOOLEAN : CloseReentrant(silent)

TriggerCallingBack == \E chunk \in Chunks : TriggerReentrant(chunk)

ErrorCallingBack == \E err \in Errs : ErrorReentrant(err)

NextReenter ==
    BindCallingBack \/ DoUnbind \/ CloseCallingBack \/ TriggerCallingBack \/ ErrorCallingBack

SpecReenter == Init /\ [][NextReenter]_vars

\* ------------------------------------------------------------------ C20
\* C20: no backlog is stranded behind a live handler. In every reachable
\* state a live callback implies that no value is pending and a live
\* errorback implies that no error is pending, also when a handler invoked
\* during bind's drain calls trigger or error on the same cell.
C20_NoBacklogBehindLiveHandler ==
    /\ _callback # None => _chunks = <<>>
    /\ _errorback # None => _errors = <<>>

====
